---- MODULE Spec2Model ----
(***************************************************************************)
(* Model of ibkr_news_bot_m3.py: the polling loop (main_loop), one poll    *)
(* cycle (fetch_and_publish_news) and the durable set of seen article keys *)
(* (load_seen_ids / save_seen_ids).                                        *)
(*                                                                         *)
(* Strings are sequences of one-character strings, so that str.strip(),    *)
(* sorted() and the line structure of the durable file are computed the    *)
(* way Python computes them.                                               *)
(***************************************************************************)
EXTENDS Integers, Sequences, FiniteSets, TLC

VARIABLES
    pc,            \* position of the process in main_loop / fetch_and_publish_news
    exitReason,    \* why the last process ended ("" while one is running)
    fileExists,    \* os.path.exists(SEEN_ARTICLE_IDS_FILE)
    fileContent,   \* characters of the durable file
    seen_ids,      \* main_loop's seen_ids set (in memory)
    resolved,      \* contracts[sym] carries a conId
    session,       \* aiohttp session of main_loop: "none" | "open" | "closed" | "close_failed"
    connected,     \* ib.isConnected()
    symIdx,        \* index into TICKERS of the symbol being handled
    req_id,        \* fetch_and_publish_news's req_id
    news_ticks,    \* items of the current fetch not yet iterated over
    saveRest,      \* sorted ids save_seen_ids has not written yet
    upstream,      \* what the NewsSource returns per symbol (fixed-source runs)
    run,           \* number of the fetch_and_publish_news call (fixed-source runs)
    cycle,         \* loop iterations started so far, over all processes
    \* ---- history (observations of the run, never read by the program) ----
    pubEarlier,    \* keys whose block an earlier process printed
    pubProc,       \* per key: console blocks printed by this process
    seen_at_start, \* the SeenSet the process (or the fixed-source run) started with
    committed,     \* what load_seen_ids returned right after the last completed save
    status,        \* per symbol, in this cycle: "none" | "skipped" | "failed" | "complete"
    fetchedKeys,   \* per symbol, in this cycle: keys of the items the fetch returned
    raisedKeys,    \* keys of the items whose handling raised in this cycle
    cycPubOk,      \* keys published and marked seen in this cycle
    cycPubFail,    \* keys whose publish raised in this cycle after another key's succeeded
    lastLoad,      \* outcome of the process's load_seen_ids: "none" | "absent" | "read" | "ioerror"
    lastWait,      \* the sleep the current iteration came from: "none" | "poll" | "delay"
    raisedEarlier, \* one-process runs: keys whose publish raised in an earlier cycle
                   \* and that were not seen when that cycle ended
    histOn,        \* the one-process history is recorded (constant in a run)
    lastSaved,     \* one-process runs: keys written by the last completed save of the process
    lastItem,      \* one-process runs: the item last published for the current
                   \* symbol, with the outcomes of its body fetch and Telegram post
    symPubCount,   \* one-process runs: items published for the current symbol in this cycle
    cycFetched,    \* one-process runs: a fetch was answered in this cycle (forgotten
                   \* when the cycle's save completes)
    prevFetched,   \* one-process runs: a fetch was answered in the cycle before this
                   \* one, and that cycle's save did not complete
    rtS,           \* round-trip runs: the set handed to save_seen_ids
    rtLoaded,      \* round-trip runs: the set load_seen_ids returned
    rtFile2,       \* round-trip runs: the file written by saving the loaded set
    ts,            \* short_time_ago runs: the argument, << >> for None or << epoch seconds >>
    nowEpoch,      \* short_time_ago runs: the clock at datetime.now(), whole epoch seconds
    nowFrac,       \* short_time_ago runs: the clock has a fraction of a second
    utcShift,      \* short_time_ago runs: local UTC offset at now minus the one at ts
    rendered       \* short_time_ago runs: the string returned

vars == << pc, exitReason, fileExists, fileContent, seen_ids, resolved, session,
           connected, symIdx, req_id, news_ticks, saveRest, upstream,
           run, cycle, pubEarlier, pubProc, seen_at_start,
           committed, status, fetchedKeys, raisedKeys, cycPubOk, cycPubFail,
           lastLoad, lastWait, rtS, rtLoaded, rtFile2,
           ts, nowEpoch, nowFrac, utcShift, rendered,
           raisedEarlier,
           histOn,
           lastSaved,
           lastItem,
           symPubCount,
           cycFetched,
           prevFetched >>

(***************************************************************************)
(* Bounds of the model.                                                    *)
(***************************************************************************)
MaxCycles == 2      \* loop iterations started, over all processes
MaxTicks == 2       \* length of one fetch result
MaxFieldLen == 1    \* round-trip runs: length of providerCode / articleId
MaxSetSize == 2     \* round-trip runs: size of the set saved
MaxAgeUnits == 2    \* short_time_ago runs: ages up to this many seconds, minutes, hours, days

(***************************************************************************)
(* Characters and strings.                                                 *)
(***************************************************************************)
NL == "\n"
SP == " "

\* Code points, for sorted()'s comparison of str.
CharCode(c) ==
    CASE c = NL  -> 10
      [] c = SP  -> 32
      [] c = "1" -> 49
      [] c = ":" -> 58
      [] c = "B" -> 66
      [] OTHER   -> 127

\* str.strip() with no argument removes these at both ends.
Whitespace == {SP, NL}

RECURSIVE LStrip(_)
LStrip(s) ==
    IF s # << >> /\ Head(s) \in Whitespace THEN LStrip(Tail(s)) ELSE s

RECURSIVE RStrip(_)
RStrip(s) ==
    IF s # << >> /\ s[Len(s)] \in Whitespace
    THEN RStrip(SubSeq(s, 1, Len(s) - 1))
    ELSE s

Strip(s) == RStrip(LStrip(s))

\* Python's str `<`: lexicographic by code point, a proper prefix first.
RECURSIVE StrLess(_, _)
StrLess(a, b) ==
    IF b = << >> THEN FALSE
    ELSE IF a = << >> THEN TRUE
    ELSE IF CharCode(Head(a)) # CharCode(Head(b))
         THEN CharCode(Head(a)) < CharCode(Head(b))
         ELSE StrLess(Tail(a), Tail(b))

\* sorted(ids)
RECURSIVE Sorted(_)
Sorted(S) ==
    IF S = {} THEN << >>
    ELSE LET m == CHOOSE x \in S : \A y \in S \ {x} : StrLess(x, y)
         IN  << m >> \o Sorted(S \ {m})

\* Iterating a text file: the lines, each with its terminator (the last one
\* without, when the file does not end in a newline).
RECURSIVE FileLines(_)
FileLines(s) ==
    IF s = << >> THEN << >>
    ELSE LET nls == {i \in 1..Len(s) : s[i] = NL}
         IN  IF nls = {} THEN << s >>
             ELSE LET i == CHOOSE j \in nls : \A k \in nls : j <= k
                  IN  << SubSeq(s, 1, i) >> \o FileLines(SubSeq(s, i + 1, Len(s)))

SeqRange(q) == {q[i] : i \in 1..Len(q)}

RECURSIVE Concat(_)
Concat(q) == IF q = << >> THEN << >> ELSE Head(q) \o Concat(Tail(q))

\* f.write(f"{_id}\n")
LineOf(id) == id \o << NL >>

\* The body of load_seen_ids for an existing, readable file.
ReadSeenIds(content) ==
    {Strip(l) : l \in {x \in SeqRange(FileLines(content)) : Strip(x) # << >>}}

\* load_seen_ids(path)
load_seen_ids(exists, content) ==
    IF ~exists THEN {} ELSE ReadSeenIds(content)

\* The file save_seen_ids(path, ids) leaves when it completes.
SavedContent(ids) ==
    LET q == Sorted(ids) IN Concat([i \in 1..Len(q) |-> LineOf(q[i])])

\* The lines of the file as written, terminator removed and nothing else.
WrittenKeys(content) ==
    {SubSeq(l, 1, Len(l) - 1) : l \in {x \in SeqRange(FileLines(content)) : x[Len(x)] = NL}}

\* article_key = f"{providerCode}:{articleId}"
ArticleKey(nt) == nt.providerCode \o << ":" >> \o nt.articleId

(***************************************************************************)
(* Configuration and the NewsSource's items.                               *)
(***************************************************************************)
\* TICKERS, with IB_TICKERS = "AAPL,TSLA"
TICKERS == << "AAPL", "TSLA" >>
Symbols == 1..Len(TICKERS)

\* The items the source may return: two keys, one of them with a provider
\* code that str.strip() changes, and two items that share a key and differ in
\* the headline.
TickProviders == { << "B" >>, << SP, "B" >> }
TickArticles == { << "1" >> }
Headlines == { "A" }

Ticks ==
    [providerCode : TickProviders, articleId : TickArticles, headline : Headlines]
        \cup {[providerCode |-> << "B" >>, articleId |-> << "1" >>, headline |-> "Z"]}
Keys == {ArticleKey(nt) : nt \in Ticks}
TickSeqs == UNION {[1..n -> Ticks] : n \in 0..MaxTicks}
KeysOf(ticks) == {ArticleKey(ticks[i]) : i \in 1..Len(ticks)}

NoCount == [k \in Keys |-> 0]
NoStatus == [s \in Symbols |-> "none"]
NoKeys == [s \in Symbols |-> {}]
Unresolved == [s \in Symbols |-> FALSE]
\* IB_HIST_NEWS_LIMIT, set to 1 (the default is 20)
HIST_NEWS_LIMIT == 1

NoItem == [key |-> << >>, body |-> "none", post |-> "none"]

fileVars == << fileExists, fileContent >>
rtVars == << rtS, rtLoaded, rtFile2 >>
staVars == << ts, nowEpoch, nowFrac, utcShift, rendered >>
srcVars == << upstream, run >>
pubHist == << pubEarlier, pubProc >>
cycHist == << status, fetchedKeys, raisedKeys, cycPubOk, cycPubFail >>
procVars == << session, connected, resolved >>
loadHist == << lastLoad, lastWait >>
fetchVars == << symIdx, req_id, news_ticks >>

\* No call of short_time_ago is being observed.
StaIdle ==
    /\ ts = << >> /\ nowEpoch = 0 /\ nowFrac = FALSE /\ utcShift = 0
    /\ rendered = << >>

LoopPcs == {"qualify", "sym", "req", "items", "returned", "writing", "sleep", "err_delay"}

\* The process's memory, as it is before main_loop has set anything.
MemoryGone ==
    /\ seen_ids' = {} /\ seen_at_start' = {}
    /\ resolved' = Unresolved
    /\ symIdx' = 1 /\ req_id' = 1000 /\ news_ticks' = << >> /\ saveRest' = << >>
    /\ status' = NoStatus /\ fetchedKeys' = NoKeys
    /\ raisedKeys' = {} /\ cycPubOk' = {} /\ cycPubFail' = {}
    /\ raisedEarlier' = {} /\ lastSaved' = {} /\ lastItem' = NoItem
    /\ symPubCount' = 0
    /\ cycFetched' = FALSE /\ prevFetched' = FALSE
    /\ lastWait' = "none"

\* What a process leaves behind is the file (and what it printed).
ProcessGone ==
    /\ pc' = "exited"
    /\ connected' = FALSE
    /\ pubEarlier' = pubEarlier \cup {k \in Keys : pubProc[k] > 0}
    /\ pubProc' = NoCount
    /\ MemoryGone

\* The finally block is entered: nothing but `session` and `ib` is used from
\* here on.
EnterFinally(reason) ==
    /\ pc' = "cleanup"
    /\ exitReason' = reason
    /\ MemoryGone

(***************************************************************************)
(* Process start: main_loop up to the polling loop.                        *)
(***************************************************************************)
Init ==
    /\ pc = "start" /\ exitReason = ""
    /\ fileExists = FALSE /\ fileContent = << >>
    /\ seen_ids = {} /\ resolved = Unresolved
    /\ session = "none" /\ connected = FALSE
    /\ symIdx = 1 /\ req_id = 1000 /\ news_ticks = << >> /\ saveRest = << >>
    /\ upstream = [s \in Symbols |-> << >>] /\ run = 1
    /\ cycle = 0
    /\ pubEarlier = {} /\ pubProc = NoCount
    /\ seen_at_start = {} /\ committed = {}
    /\ status = NoStatus /\ fetchedKeys = NoKeys
    /\ raisedKeys = {} /\ cycPubOk = {} /\ cycPubFail = {}
    /\ lastLoad = "none" /\ lastWait = "none"
    /\ rtS = {} /\ rtLoaded = {} /\ rtFile2 = << >>
    /\ StaIdle
    /\ raisedEarlier = {}
    /\ histOn = FALSE
    /\ lastSaved = {}
    /\ lastItem = NoItem
    /\ symPubCount = 0
    /\ cycFetched = FALSE
    /\ prevFetched = FALSE

\* LoadSeen with a fault: the file is read and the result is not used.
LoadSeenUnused ==
    /\ pc = "start"
    /\ seen_ids' = {}
    /\ seen_at_start' = load_seen_ids(fileExists, fileContent)
    /\ lastLoad' = IF fileExists THEN "read" ELSE "absent"
    /\ pc' = "connect"
    /\ UNCHANGED << exitReason, fileVars, procVars, fetchVars, saveRest, srcVars,
                    cycle, pubHist, committed, cycHist, lastWait,
                    rtVars, staVars, raisedEarlier, histOn, lastSaved,
                    lastItem, symPubCount, cycFetched, prevFetched >>

\* seen_ids = load_seen_ids(SEEN_ARTICLE_IDS_FILE)
LoadSeen ==
    /\ pc = "start"
    /\ LET ids == load_seen_ids(fileExists, fileContent) IN
         /\ seen_ids' = ids
         /\ seen_at_start' = ids
    /\ lastLoad' = IF fileExists THEN "read" ELSE "absent"
    /\ pc' = "connect"
    /\ UNCHANGED << exitReason, fileVars, procVars, fetchVars, saveRest, srcVars,
                    cycle, pubHist, committed, cycHist, lastWait,
                    rtVars, staVars, raisedEarlier, histOn, lastSaved,
                    lastItem, symPubCount, cycFetched, prevFetched >>

\* open() or the read raises (OSError, UnicodeDecodeError): the call is outside
\* main_loop's try, and __main__ catches KeyboardInterrupt only.
LoadIOError ==
    /\ pc = "start"
    /\ fileExists
    /\ lastLoad' = "ioerror"
    /\ pc' = "exited"
    /\ exitReason' = "load_error"
    /\ UNCHANGED << fileVars, seen_ids, procVars, fetchVars, saveRest, srcVars,
                    cycle, pubHist, seen_at_start, committed, cycHist,
                    lastWait, rtVars, staVars, raisedEarlier, histOn,
                    lastSaved, lastItem, symPubCount, cycFetched, prevFetched >>

\* Entry of one iteration of `while True`.
IterStart(wait) ==
    /\ lastWait' = wait
    /\ pc' = "qualify"
    /\ symIdx' = 1
    /\ cycle' = cycle + 1
    /\ prevFetched' = cycFetched /\ cycFetched' = FALSE
    /\ status' = NoStatus /\ fetchedKeys' = NoKeys
    /\ raisedKeys' = {} /\ cycPubOk' = {} /\ cycPubFail' = {}
    /\ raisedEarlier' = IF histOn THEN (raisedEarlier \cup raisedKeys) \ seen_ids ELSE {}

\* ib.connect succeeds; contracts and the optional aiohttp session are built.
ConnectOk ==
    /\ pc = "connect"
    /\ cycle < MaxCycles
    /\ connected' = TRUE
    /\ resolved' = Unresolved
    /\ \E tg \in BOOLEAN : session' = IF tg THEN "open" ELSE "none"
    /\ IterStart("none")
    /\ UNCHANGED << exitReason, fileVars, seen_ids, req_id, news_ticks, saveRest,
                    srcVars, pubHist, seen_at_start, committed,
                    lastLoad, rtVars, staVars, histOn, lastSaved, lastItem,
                    symPubCount >>

\* ib.connect returns without a connection (`return`), or raises: both leave
\* through the finally block.
ConnectFail ==
    /\ pc = "connect"
    /\ \E r \in {"connect_failed", "connect_error"} : EnterFinally(r)
    /\ UNCHANGED << fileVars, session, connected, srcVars, cycle, pubHist, committed, lastLoad, rtVars, staVars,
                    histOn >>

(***************************************************************************)
(* The loop body: qualification of every contract.                         *)
(***************************************************************************)
QualifyAdvance ==
    IF symIdx < Len(TICKERS)
    THEN /\ symIdx' = symIdx + 1 /\ pc' = "qualify" /\ req_id' = req_id
    ELSE /\ symIdx' = 1 /\ pc' = "sym" /\ req_id' = 1000

\* details non-empty: contracts[sym] = details[0].contract
QualifyOk ==
    /\ pc = "qualify"
    /\ resolved' = [resolved EXCEPT ![symIdx] = TRUE]
    /\ QualifyAdvance
    /\ UNCHANGED << exitReason, fileVars, seen_ids, session, connected, news_ticks,
                    saveRest, srcVars, cycle, pubHist, seen_at_start,
                    committed, cycHist, loadHist, rtVars, staVars,
                    raisedEarlier, histOn, lastSaved, lastItem, symPubCount,
                    cycFetched, prevFetched >>

\* details empty ("Could not qualify"), or qualifyContracts raises and the
\* inner handler logs it: contracts[sym] stays as it is.
QualifyFail ==
    /\ pc = "qualify"
    /\ QualifyAdvance
    /\ UNCHANGED << exitReason, fileVars, seen_ids, procVars, news_ticks,
                    saveRest, srcVars, cycle, pubHist, seen_at_start,
                    committed, cycHist, loadHist, rtVars, staVars,
                    raisedEarlier, histOn, lastSaved, lastItem, symPubCount,
                    cycFetched, prevFetched >>

(***************************************************************************)
(* fetch_and_publish_news: one symbol after the other.                     *)
(***************************************************************************)
\* The for loop over contracts.items() moves on; after the last symbol the
\* call returns.
NextSymbol ==
    /\ news_ticks' = << >>
    /\ lastItem' = NoItem /\ symPubCount' = 0
    /\ IF symIdx < Len(TICKERS)
       THEN symIdx' = symIdx + 1 /\ pc' = "sym"
       ELSE symIdx' = symIdx /\ pc' = "returned"

\* SymbolExcept with a fault: the exception ends the loop over the symbols.
SymbolExceptAbort ==
    /\ status' = [status EXCEPT ![symIdx] = "failed"]
    /\ news_ticks' = << >>
    /\ lastItem' = NoItem /\ symPubCount' = 0
    /\ symIdx' = symIdx
    /\ pc' = "returned"

\* The handler of the per-symbol try (`except Exception`): log, next symbol.
SymbolExcept ==
    /\ status' = [status EXCEPT ![symIdx] = "failed"]
    /\ NextSymbol

\* `if not getattr(contract, "conId", None)` is false: go on to the request.
SymHasConId ==
    /\ pc = "sym"
    /\ resolved[symIdx]
    /\ pc' = "req"
    /\ UNCHANGED << exitReason, fileVars, seen_ids, procVars, fetchVars, saveRest,
                    srcVars, cycle, pubHist, seen_at_start, committed,
                    cycHist, loadHist, rtVars, staVars, raisedEarlier, histOn,
                    lastSaved, lastItem, symPubCount, cycFetched, prevFetched >>

\* No conId and qualifyContracts gives one: the local `contract` is replaced
\* (contracts[symbol] is not) and the request follows.
SymQualifyOk ==
    /\ pc = "sym"
    /\ ~resolved[symIdx]
    /\ pc' = "req"
    /\ UNCHANGED << exitReason, fileVars, seen_ids, procVars, fetchVars, saveRest,
                    srcVars, cycle, pubHist, seen_at_start, committed,
                    cycHist, loadHist, rtVars, staVars, raisedEarlier, histOn,
                    lastSaved, lastItem, symPubCount, cycFetched, prevFetched >>

\* No conId and qualifyContracts returns nothing: "skipping", `continue`.
SymQualifyEmpty ==
    /\ pc = "sym"
    /\ ~resolved[symIdx]
    /\ status' = [status EXCEPT ![symIdx] = "skipped"]
    /\ NextSymbol
    /\ UNCHANGED << exitReason, fileVars, seen_ids, procVars, req_id, saveRest,
                    srcVars, cycle, pubHist, seen_at_start, committed,
                    fetchedKeys, raisedKeys, cycPubOk, cycPubFail, loadHist, rtVars, staVars,
                    raisedEarlier, histOn, lastSaved, cycFetched, prevFetched >>

\* No conId and qualifyContracts raises.
SymQualifyRaise ==
    /\ pc = "sym"
    /\ ~resolved[symIdx]
    /\ SymbolExcept
    /\ UNCHANGED << exitReason, fileVars, seen_ids, procVars, req_id, saveRest,
                    srcVars, cycle, pubHist, seen_at_start, committed,
                    fetchedKeys, raisedKeys, cycPubOk, cycPubFail, loadHist, rtVars, staVars,
                    raisedEarlier, histOn, lastSaved, cycFetched, prevFetched >>

\* await ib.reqHistoricalNewsAsync(...) raises.
ReqRaise ==
    /\ pc = "req"
    /\ SymbolExcept
    /\ UNCHANGED << exitReason, fileVars, seen_ids, procVars, req_id, saveRest,
                    srcVars, cycle, pubHist, seen_at_start, committed,
                    fetchedKeys, raisedKeys, cycPubOk, cycPubFail, loadHist, rtVars, staVars,
                    raisedEarlier, histOn, lastSaved, cycFetched, prevFetched >>

\* The request returns `ticks`.  `if not news_ticks`: "No news", req_id += 1,
\* continue; else the loop over the items starts.
ReqReturns(ticks) ==
    /\ pc = "req"
    /\ fetchedKeys' = [fetchedKeys EXCEPT ![symIdx] = KeysOf(ticks)]
    /\ cycFetched' = histOn
    /\ IF ticks = << >>
       THEN /\ status' = [status EXCEPT ![symIdx] = "complete"]
            /\ req_id' = req_id + 1
            /\ NextSymbol
       ELSE /\ news_ticks' = ticks
            /\ pc' = "items"
            /\ UNCHANGED << status, req_id, symIdx, lastItem, symPubCount >>
    /\ UNCHANGED << exitReason, fileVars, seen_ids, procVars, saveRest, srcVars,
                    cycle, pubHist, seen_at_start, committed, raisedKeys,
                    cycPubOk, cycPubFail, loadHist, rtVars, staVars,
                    raisedEarlier, histOn, lastSaved, prevFetched >>

\* The NewsSource answers with any list of items; HIST_NEWS_LIMIT goes into the
\* request as totalResults, and the list returned is used as it comes.
ReqTicks == \E ticks \in TickSeqs : ReqReturns(ticks)

AddCount(f, k) == [f EXCEPT ![k] = @ + 1]

\* print(text); print()
Printed(k) ==
    /\ pubProc' = AddCount(pubProc, k)
    /\ UNCHANGED pubEarlier

\* `if article_key in seen_ids: continue`
ItemSkip ==
    /\ pc = "items"
    /\ news_ticks # << >>
    /\ ArticleKey(Head(news_ticks)) \in seen_ids
    /\ news_ticks' = Tail(news_ticks)
    /\ UNCHANGED << pc, exitReason, fileVars, seen_ids, procVars, symIdx, req_id,
                    saveRest, srcVars, cycle, pubHist, seen_at_start,
                    committed, cycHist, loadHist, rtVars, staVars,
                    raisedEarlier, histOn, lastSaved, lastItem, symPubCount,
                    cycFetched, prevFetched >>

\* ItemPublish with a fault: no `if article_key in seen_ids` before publishing.
ItemPublishNoCheck ==
    /\ pc = "items"
    /\ news_ticks # << >>
    /\ LET k == ArticleKey(Head(news_ticks)) IN
         /\ Printed(k)
         /\ seen_ids' = seen_ids \cup {k}
         /\ cycPubOk' = cycPubOk \cup {k}
    /\ news_ticks' = Tail(news_ticks)
    /\ UNCHANGED << pc, exitReason, fileVars, procVars, symIdx, req_id, saveRest,
                    srcVars, cycle, seen_at_start, committed, status,
                    fetchedKeys, raisedKeys, cycPubFail, loadHist, rtVars, staVars,
                    raisedEarlier, histOn, lastSaved, lastItem, symPubCount,
                    cycFetched, prevFetched >>

\* ItemPublish with a fault: the key is added to seen_ids and nothing is
\* printed.
ItemPublishNoPrint ==
    /\ pc = "items"
    /\ news_ticks # << >>
    /\ LET k == ArticleKey(Head(news_ticks)) IN
         /\ k \notin seen_ids
         /\ seen_ids' = seen_ids \cup {k}
         /\ cycPubOk' = cycPubOk \cup {k}
    /\ news_ticks' = Tail(news_ticks)
    /\ UNCHANGED << pc, exitReason, fileVars, procVars, symIdx, req_id, saveRest,
                    srcVars, cycle, pubHist, seen_at_start, committed, status,
                    fetchedKeys, raisedKeys, cycPubFail, loadHist, rtVars, staVars,
                    raisedEarlier, histOn, lastSaved, lastItem, symPubCount,
                    cycFetched, prevFetched >>

\* ItemPublish with a fault: the key is not added to seen_ids.
ItemPublishNoMark ==
    /\ pc = "items"
    /\ news_ticks # << >>
    /\ LET k == ArticleKey(Head(news_ticks)) IN
         /\ k \notin seen_ids
         /\ Printed(k)
         /\ cycPubOk' = cycPubOk \cup {k}
    /\ news_ticks' = Tail(news_ticks)
    /\ UNCHANGED << pc, exitReason, fileVars, seen_ids, procVars, symIdx, req_id,
                    saveRest, srcVars, cycle, seen_at_start, committed,
                    status, fetchedKeys, raisedKeys, cycPubFail, loadHist, rtVars, staVars,
                    raisedEarlier, histOn, lastSaved, lastItem, symPubCount,
                    cycFetched, prevFetched >>

\* if FETCH_ARTICLE_BODY: "off" when it is false; else ib.reqNewsArticle returns
\* ("ok") or raises and the handler logs it ("failed", no body section).
BodyOutcomes == {"off", "ok", "failed"}

\* `if session and TELEGRAM_BOT_TOKEN and TELEGRAM_CHAT_ID`: without a session
\* nothing is posted ("none"); else post_to_telegram gets status 200 ("sent"),
\* another status (a warning is logged) or an exception (logged).
PostOutcomes ==
    IF session = "open" THEN {"sent", "non200", "raised"} ELSE {"none"}

\* ItemPublish with a fault: no try around ib.reqNewsArticle, so that its
\* failure ends the handling of the item and of the symbol.
ItemPublishBodyAborts ==
    /\ pc = "items"
    /\ news_ticks # << >>
    /\ LET k == ArticleKey(Head(news_ticks)) IN
         /\ k \notin seen_ids
         /\ \E b \in BodyOutcomes, t \in PostOutcomes :
              /\ lastItem' = IF histOn THEN [key |-> k, body |-> b, post |-> t] ELSE NoItem
              /\ IF b = "failed"
                 THEN /\ news_ticks' = << >>
                      /\ UNCHANGED << seen_ids, cycPubOk, pubHist >>
                 ELSE /\ Printed(k)
                      /\ seen_ids' = seen_ids \cup {k}
                      /\ cycPubOk' = cycPubOk \cup {k}
                      /\ news_ticks' = Tail(news_ticks)
    /\ UNCHANGED << pc, exitReason, fileVars, procVars, symIdx, req_id, saveRest,
                    srcVars, cycle, seen_at_start, committed, status,
                    fetchedKeys, raisedKeys, cycPubFail, loadHist, rtVars, staVars,
                    raisedEarlier, histOn, lastSaved, symPubCount, cycFetched,
                    prevFetched >>

\* ItemPublish with a fault: a failed Telegram post is not caught, so that the
\* printed item is not marked and the symbol's remaining items are left.
ItemPublishPostAborts ==
    /\ pc = "items"
    /\ news_ticks # << >>
    /\ LET k == ArticleKey(Head(news_ticks)) IN
         /\ k \notin seen_ids
         /\ Printed(k)
         /\ \E b \in BodyOutcomes, t \in PostOutcomes :
              /\ lastItem' = IF histOn THEN [key |-> k, body |-> b, post |-> t] ELSE NoItem
              /\ IF t \in {"non200", "raised"}
                 THEN /\ news_ticks' = << >>
                      /\ UNCHANGED << seen_ids, cycPubOk >>
                 ELSE /\ seen_ids' = seen_ids \cup {k}
                      /\ cycPubOk' = cycPubOk \cup {k}
                      /\ news_ticks' = Tail(news_ticks)
    /\ UNCHANGED << pc, exitReason, fileVars, procVars, symIdx, req_id, saveRest,
                    srcVars, cycle, seen_at_start, committed, status,
                    fetchedKeys, raisedKeys, cycPubFail, loadHist, rtVars, staVars,
                    raisedEarlier, histOn, lastSaved, symPubCount, cycFetched,
                    prevFetched >>

\* An unseen item: the block is rendered (reqNewsArticle's failure is caught and
\* leaves the body out), printed (print(text); print() is one publish), posted
\* to Telegram when configured (failures swallowed), and the key is added to
\* seen_ids.
ItemPublish ==
    /\ pc = "items"
    /\ news_ticks # << >>
    /\ LET k == ArticleKey(Head(news_ticks)) IN
         /\ k \notin seen_ids
         /\ Printed(k)
         /\ seen_ids' = seen_ids \cup {k}
         /\ cycPubOk' = cycPubOk \cup {k}
         /\ \E b \in BodyOutcomes, t \in PostOutcomes :
              lastItem' = IF histOn THEN [key |-> k, body |-> b, post |-> t] ELSE NoItem
    /\ symPubCount' = IF histOn THEN symPubCount + 1 ELSE 0
    /\ news_ticks' = Tail(news_ticks)
    /\ UNCHANGED << pc, exitReason, fileVars, procVars, symIdx, req_id, saveRest,
                    srcVars, cycle, seen_at_start, committed, status,
                    fetchedKeys, raisedKeys, cycPubFail, loadHist, rtVars, staVars,
                    raisedEarlier, histOn, lastSaved, cycFetched, prevFetched >>

\* ItemRaise with a fault: the key is marked seen before the publish is tried.
ItemRaiseMarked ==
    /\ pc = "items"
    /\ news_ticks # << >>
    /\ LET k == ArticleKey(Head(news_ticks)) IN
         /\ k \notin seen_ids
         /\ seen_ids' = seen_ids \cup {k}
         /\ raisedKeys' = raisedKeys \cup {k}
         /\ cycPubFail' = IF cycPubOk # {} THEN cycPubFail \cup {k} ELSE cycPubFail
    /\ SymbolExcept
    /\ UNCHANGED << exitReason, fileVars, procVars, req_id, saveRest, srcVars,
                    cycle, pubHist, seen_at_start, committed,
                    fetchedKeys, cycPubOk, loadHist, rtVars, staVars,
                    raisedEarlier, histOn, lastSaved, cycFetched, prevFetched >>

\* Rendering or printing an unseen item raises (short_time_ago, str(art),
\* print): the publish fails.  Only the per-symbol try encloses the loop over
\* the items, so the handler is SymbolExcept and the for loop is left.
ItemRaise ==
    /\ pc = "items"
    /\ news_ticks # << >>
    /\ LET k == ArticleKey(Head(news_ticks)) IN
         /\ k \notin seen_ids
         /\ raisedKeys' = raisedKeys \cup {k}
         /\ cycPubFail' = IF cycPubOk # {} THEN cycPubFail \cup {k} ELSE cycPubFail
    /\ SymbolExcept
    /\ UNCHANGED << exitReason, fileVars, seen_ids, procVars, req_id, saveRest,
                    srcVars, cycle, pubHist, seen_at_start, committed,
                    fetchedKeys, cycPubOk, loadHist, rtVars, staVars,
                    raisedEarlier, histOn, lastSaved, cycFetched, prevFetched >>

\* The interrupt (KeyboardInterrupt, or the task's cancellation at the await of
\* the Telegram post) arrives when the block is printed and the key not added.
ItemInterrupted ==
    /\ pc = "items"
    /\ news_ticks # << >>
    /\ LET k == ArticleKey(Head(news_ticks)) IN
         /\ k \notin seen_ids
         /\ Printed(k)
    /\ EnterFinally("interrupt")
    /\ UNCHANGED << fileVars, session, connected, srcVars, cycle, committed, lastLoad, rtVars, staVars,
                    histOn >>

\* The loop over the items ends: req_id += 1, next symbol.
SymDone ==
    /\ pc = "items"
    /\ news_ticks = << >>
    /\ status' = [status EXCEPT ![symIdx] = "complete"]
    /\ req_id' = req_id + 1
    /\ NextSymbol
    /\ UNCHANGED << exitReason, fileVars, seen_ids, procVars, saveRest, srcVars,
                    cycle, pubHist, seen_at_start, committed,
                    fetchedKeys, raisedKeys, cycPubOk, cycPubFail, loadHist, rtVars, staVars,
                    raisedEarlier, histOn, lastSaved, cycFetched, prevFetched >>

(***************************************************************************)
(* The rest of the loop body: save_seen_ids, the sleeps, the handler.      *)
(***************************************************************************)
\* open(path, "w"): the file is created or truncated.
SaveOpen ==
    /\ pc = "returned"
    /\ fileExists' = TRUE
    /\ fileContent' = << >>
    /\ saveRest' = Sorted(seen_ids)
    /\ pc' = "writing"
    /\ status' = NoStatus /\ fetchedKeys' = NoKeys /\ raisedKeys' = {}
    /\ raisedEarlier' = IF histOn THEN (raisedEarlier \cup raisedKeys) \ seen_ids ELSE {}
    /\ UNCHANGED << exitReason, seen_ids, procVars, fetchVars, srcVars, cycle,
                    pubHist, seen_at_start, committed, cycPubOk,
                    cycPubFail, loadHist, rtVars, staVars, histOn, lastSaved,
                    lastItem, symPubCount, cycFetched, prevFetched >>

\* for _id in sorted(ids): f.write(f"{_id}\n")
SaveWrite ==
    /\ pc = "writing"
    /\ saveRest # << >>
    /\ fileContent' = fileContent \o LineOf(Head(saveRest))
    /\ saveRest' = Tail(saveRest)
    /\ UNCHANGED << pc, exitReason, fileExists, seen_ids, procVars, fetchVars,
                    srcVars, cycle, pubHist, seen_at_start, committed,
                    cycHist, loadHist, rtVars, staVars, raisedEarlier, histOn,
                    lastSaved, lastItem, symPubCount, cycFetched, prevFetched >>

\* The with block ends: the file is closed, save_seen_ids returns, and the
\* loop goes to asyncio.sleep(POLL_SECONDS).
SaveClose ==
    /\ pc = "writing"
    /\ saveRest = << >>
    /\ committed' = load_seen_ids(fileExists, fileContent)
    /\ lastSaved' = IF histOn THEN WrittenKeys(fileContent) ELSE {}
    /\ cycFetched' = FALSE
    /\ pc' = "sleep"
    /\ UNCHANGED << exitReason, fileVars, seen_ids, procVars, fetchVars, saveRest,
                    srcVars, cycle, pubHist, seen_at_start, cycHist,
                    loadHist, rtVars, staVars, raisedEarlier, histOn, lastItem,
                    symPubCount, prevFetched >>

\* LoopExcept with a fault: no handler around the loop body, the exception ends
\* the process.
LoopExceptExit ==
    /\ pc' = "exited"
    /\ saveRest' = << >>
    /\ status' = NoStatus /\ fetchedKeys' = NoKeys
    /\ raisedKeys' = {} /\ cycPubOk' = {} /\ cycPubFail' = {}
    /\ raisedEarlier' = IF histOn THEN (raisedEarlier \cup raisedKeys) \ seen_ids ELSE {}

\* `except Exception` of the loop body: log, then asyncio.sleep(10).
LoopExcept ==
    /\ pc' = "err_delay"
    /\ saveRest' = << >>
    /\ status' = NoStatus /\ fetchedKeys' = NoKeys
    /\ raisedKeys' = {} /\ cycPubOk' = {} /\ cycPubFail' = {}
    /\ raisedEarlier' = IF histOn THEN (raisedEarlier \cup raisedKeys) \ seen_ids ELSE {}

\* SaveRaise with a fault: the handler of the loop empties seen_ids.
SaveRaiseForgets ==
    /\ pc \in {"returned", "writing"}
    /\ LoopExcept
    /\ seen_ids' = {}
    /\ UNCHANGED << exitReason, fileVars, procVars, fetchVars, srcVars,
                    cycle, pubHist, seen_at_start, committed, loadHist,
                    rtVars, staVars, histOn, lastSaved, lastItem, symPubCount,
                    cycFetched, prevFetched >>

\* open() raises (the file is left as it was), or a write or the close raises
\* (the file keeps what was written): OSError reaches the loop's handler.
SaveRaise ==
    /\ pc \in {"returned", "writing"}
    /\ LoopExcept
    /\ UNCHANGED << exitReason, fileVars, seen_ids, procVars, fetchVars, srcVars,
                    cycle, pubHist, seen_at_start, committed, loadHist,
                    rtVars, staVars, histOn, lastSaved, lastItem, symPubCount,
                    cycFetched, prevFetched >>

\* asyncio.sleep(POLL_SECONDS) returns: next iteration.
Wake ==
    /\ pc = "sleep"
    /\ cycle < MaxCycles
    /\ IterStart("poll")
    /\ UNCHANGED << exitReason, fileVars, seen_ids, procVars, req_id, news_ticks,
                    saveRest, srcVars, pubHist, seen_at_start,
                    committed, lastLoad, rtVars, staVars, histOn, lastSaved,
                    lastItem, symPubCount >>

\* asyncio.sleep(10) returns: next iteration.
Retry ==
    /\ pc = "err_delay"
    /\ cycle < MaxCycles
    /\ IterStart("delay")
    /\ UNCHANGED << exitReason, fileVars, seen_ids, procVars, req_id, news_ticks,
                    saveRest, srcVars, pubHist, seen_at_start,
                    committed, lastLoad, rtVars, staVars, histOn, lastSaved,
                    lastItem, symPubCount >>

(***************************************************************************)
(* The ways a process ends, and the next process.                          *)
(***************************************************************************)
\* KeyboardInterrupt (or cancellation) inside main_loop's try: the finally
\* block runs next.  A file being written is closed with what it holds.
Interrupt ==
    /\ pc \in LoopPcs \cup {"connect"}
    /\ EnterFinally("interrupt")
    /\ UNCHANGED << fileVars, session, connected, srcVars, cycle, pubHist, committed, lastLoad, rtVars, staVars,
                    histOn >>

\* Cleanup with a fault: no try around session.close(), so that its failure
\* leaves the finally block before ib.disconnect().
CleanupCloseAborts ==
    /\ pc = "cleanup"
    /\ \E closed \in BOOLEAN :
         /\ session' = IF session = "open"
                        THEN (IF closed THEN "closed" ELSE "close_failed")
                        ELSE session
         /\ connected' = IF session = "open" /\ ~closed THEN connected ELSE FALSE
    /\ pc' = "exited"
    /\ pubEarlier' = pubEarlier \cup {k \in Keys : pubProc[k] > 0}
    /\ pubProc' = NoCount
    /\ MemoryGone
    /\ UNCHANGED << exitReason, fileVars, srcVars, cycle, committed,
                    lastLoad, rtVars, staVars, histOn >>

\* finally: `if session: await session.close()` in a try of its own (a failure
\* of close, or `session` being unbound when connect did not succeed, is
\* swallowed), then ib.disconnect() in a try of its own; then the process ends.
Cleanup ==
    /\ pc = "cleanup"
    /\ \E closed \in BOOLEAN :
         session' = IF session = "open"
                    THEN (IF closed THEN "closed" ELSE "close_failed")
                    ELSE session
    /\ ProcessGone
    /\ UNCHANGED << exitReason, fileVars, srcVars, cycle, committed,
                    lastLoad, rtVars, staVars, histOn >>

\* The process is killed or the machine stops, at any point.
Crash ==
    /\ pc \in LoopPcs \cup {"start", "connect", "cleanup"}
    /\ exitReason' = "crash"
    /\ session' = "none"
    /\ ProcessGone
    /\ UNCHANGED << fileVars, srcVars, cycle, committed, lastLoad,
                    rtVars, staVars, histOn >>

\* The program is started again.
Restart ==
    /\ pc = "exited"
    /\ pc' = "start"
    /\ exitReason' = ""
    /\ session' = "none"
    /\ lastLoad' = "none"
    /\ UNCHANGED << fileVars, seen_ids, resolved, connected, fetchVars, saveRest,
                    srcVars, cycle, pubHist, seen_at_start, committed, cycHist,
                    lastWait, rtVars, staVars, raisedEarlier, histOn,
                    lastSaved, lastItem, symPubCount, cycFetched, prevFetched >>

Next ==
    \/ LoadSeen \/ LoadIOError \/ ConnectOk \/ ConnectFail
    \/ QualifyOk \/ QualifyFail
    \/ SymHasConId \/ SymQualifyOk \/ SymQualifyEmpty \/ SymQualifyRaise
    \/ ReqRaise \/ ReqTicks
    \/ ItemSkip \/ ItemPublish \/ ItemRaise \/ ItemInterrupted \/ SymDone
    \/ SaveOpen \/ SaveWrite \/ SaveClose \/ SaveRaise
    \/ Wake \/ Retry
    \/ Interrupt \/ Cleanup \/ Crash \/ Restart

Spec == Init /\ [][Next]_vars

(***************************************************************************)
(* One-process runs: one run of main_loop, from its start until it ends by *)
(* itself or by an interrupt, with the history of the process recorded.    *)
(***************************************************************************)
\* What an earlier process left: no file, or the file of a completed save of
\* one key it published (a key that is read back as it was written).
StartSets == {{}} \cup {{k} : k \in {x \in Keys : Strip(x) = x}}

InitProc ==
    /\ pc = "start" /\ exitReason = ""
    /\ \E S \in StartSets :
         /\ fileExists = (S # {})
         /\ fileContent = SavedContent(S)
         /\ pubEarlier = S
         /\ committed = load_seen_ids(S # {}, SavedContent(S))
    /\ seen_ids = {} /\ resolved = Unresolved
    /\ session = "none" /\ connected = FALSE
    /\ symIdx = 1 /\ req_id = 1000 /\ news_ticks = << >> /\ saveRest = << >>
    /\ upstream = [s \in Symbols |-> << >>] /\ run = 1
    /\ cycle = 0
    /\ pubProc = NoCount
    /\ seen_at_start = {}
    /\ status = NoStatus /\ fetchedKeys = NoKeys
    /\ raisedKeys = {} /\ cycPubOk = {} /\ cycPubFail = {}
    /\ lastLoad = "none" /\ lastWait = "none"
    /\ rtS = {} /\ rtLoaded = {} /\ rtFile2 = << >>
    /\ StaIdle
    /\ raisedEarlier = {}
    /\ histOn = TRUE
    /\ lastSaved = {}
    /\ lastItem = NoItem
    /\ symPubCount = 0
    /\ cycFetched = FALSE
    /\ prevFetched = FALSE

NextProc ==
    \/ LoadSeen \/ ConnectOk \/ ConnectFail
    \/ QualifyOk \/ QualifyFail
    \/ SymHasConId \/ SymQualifyOk \/ SymQualifyEmpty \/ SymQualifyRaise
    \/ ReqRaise \/ ReqTicks
    \/ ItemSkip \/ ItemPublish \/ ItemRaise \/ ItemInterrupted \/ SymDone
    \/ SaveOpen \/ SaveWrite \/ SaveClose \/ SaveRaise
    \/ Wake \/ Retry
    \/ Interrupt \/ Cleanup

SpecProc == InitProc /\ [][NextProc]_vars

(***************************************************************************)
(* Fixed-source runs: fetch_and_publish_news called twice in sequence with *)
(* the same seen_ids object, qualified contracts, and a NewsSource that    *)
(* returns the same items both times and never fails.                      *)
(***************************************************************************)
InitFixed ==
    /\ pc = "sym" /\ exitReason = ""
    /\ fileExists = FALSE /\ fileContent = << >>
    /\ seen_ids \in SUBSET Keys
    /\ seen_at_start = seen_ids
    /\ resolved = [s \in Symbols |-> TRUE]
    /\ session = "none" /\ connected = TRUE
    /\ symIdx = 1 /\ req_id = 1000 /\ news_ticks = << >> /\ saveRest = << >>
    /\ upstream \in [Symbols -> TickSeqs] /\ run = 1
    /\ cycle = 1
    /\ pubEarlier = {} /\ pubProc = NoCount
    /\ committed = {}
    /\ status = NoStatus /\ fetchedKeys = NoKeys
    /\ raisedKeys = {} /\ cycPubOk = {} /\ cycPubFail = {}
    /\ lastLoad = "none" /\ lastWait = "none"
    /\ rtS = {} /\ rtLoaded = {} /\ rtFile2 = << >>
    /\ StaIdle
    /\ raisedEarlier = {}
    /\ histOn = FALSE
    /\ lastSaved = {}
    /\ lastItem = NoItem
    /\ symPubCount = 0
    /\ cycFetched = FALSE
    /\ prevFetched = FALSE

\* The request returns what the source holds for the symbol.
ReqUpstream == ReqReturns(upstream[symIdx])

\* The first call has returned: the second call starts, same seen_ids.
SecondRun ==
    /\ pc = "returned"
    /\ run = 1
    /\ run' = 2
    /\ pc' = "sym"
    /\ symIdx' = 1
    /\ req_id' = 1000
    /\ status' = NoStatus /\ fetchedKeys' = NoKeys
    /\ UNCHANGED << exitReason, fileVars, seen_ids, procVars, news_ticks, saveRest,
                    upstream, cycle, pubHist, seen_at_start, committed,
                    raisedKeys, cycPubOk, cycPubFail, loadHist, rtVars, staVars,
                    raisedEarlier, histOn, lastSaved, lastItem, symPubCount,
                    cycFetched, prevFetched >>

NextFixed ==
    \/ SymHasConId \/ ReqUpstream
    \/ ItemSkip \/ ItemPublish \/ SymDone
    \/ SecondRun

SpecFixed == InitFixed /\ [][NextFixed]_vars

UpstreamKeys == UNION {KeysOf(upstream[s]) : s \in Symbols}

(***************************************************************************)
(* Round-trip runs: save_seen_ids(S), load_seen_ids(), save_seen_ids of    *)
(* what was loaded, for sets S of keys providerCode + ":" + articleId.     *)
(***************************************************************************)
RTAlphabet == {SP, "B"}
RTFields == UNION {[1..n -> RTAlphabet] : n \in 0..MaxFieldLen}
RTKeys == {p \o << ":" >> \o a : p \in RTFields, a \in RTFields}

InitRT ==
    /\ pc = "rt_save" /\ exitReason = ""
    /\ fileExists = FALSE /\ fileContent = << >>
    /\ seen_ids = {} /\ seen_at_start = {}
    /\ resolved = Unresolved
    /\ session = "none" /\ connected = FALSE
    /\ symIdx = 1 /\ req_id = 1000 /\ news_ticks = << >> /\ saveRest = << >>
    /\ upstream = [s \in Symbols |-> << >>] /\ run = 1
    /\ cycle = 0
    /\ pubEarlier = {} /\ pubProc = NoCount
    /\ committed = {}
    /\ status = NoStatus /\ fetchedKeys = NoKeys
    /\ raisedKeys = {} /\ cycPubOk = {} /\ cycPubFail = {}
    /\ lastLoad = "none" /\ lastWait = "none"
    /\ rtS \in {S \in SUBSET RTKeys : Cardinality(S) <= MaxSetSize}
    /\ rtLoaded = {} /\ rtFile2 = << >>
    /\ StaIdle
    /\ raisedEarlier = {}
    /\ histOn = FALSE
    /\ lastSaved = {}
    /\ lastItem = NoItem
    /\ symPubCount = 0
    /\ cycFetched = FALSE
    /\ prevFetched = FALSE

rtFrame ==
    UNCHANGED << exitReason, seen_ids, procVars, fetchVars, saveRest, srcVars,
                 cycle, pubHist, seen_at_start, committed, cycHist,
                 loadHist, staVars, raisedEarlier, histOn, lastSaved,
                 lastItem, symPubCount, cycFetched, prevFetched >>

\* save_seen_ids(path, S)
RTSave ==
    /\ pc = "rt_save"
    /\ fileExists' = TRUE
    /\ fileContent' = SavedContent(rtS)
    /\ pc' = "rt_load"
    /\ rtFrame /\ UNCHANGED rtVars

\* load_seen_ids(path)
RTLoad ==
    /\ pc = "rt_load"
    /\ rtLoaded' = load_seen_ids(fileExists, fileContent)
    /\ pc' = "rt_resave"
    /\ rtFrame /\ UNCHANGED << fileVars, rtS, rtFile2 >>

\* save_seen_ids(path, <what was loaded>)
RTResave ==
    /\ pc = "rt_resave"
    /\ rtFile2' = SavedContent(rtLoaded)
    /\ pc' = "rt_done"
    /\ rtFrame /\ UNCHANGED << fileVars, rtS, rtLoaded >>

NextRT == RTSave \/ RTLoad \/ RTResave

SpecRT == InitRT /\ [][NextRT]_vars

(***************************************************************************)
(* short_time_ago(ts), called with the clock at some instant.  The local   *)
(* times datetime.fromtimestamp(ts) and datetime.now() are naive: each is  *)
(* the epoch time plus the UTC offset in force at that instant.            *)
(***************************************************************************)
Minute == 60
Hour == 3600
Day == 86400

DigitChars == << "0", "1", "2", "3", "4", "5", "6", "7", "8", "9" >>
Digit(n) == DigitChars[n + 1]

RECURSIVE Digits(_)
Digits(n) == IF n < 10 THEN << Digit(n) >> ELSE Digits(n \div 10) \o << Digit(n % 10) >>

\* f"{n}" for an int
Str(n) == IF n < 0 THEN << "-" >> \o Digits(0 - n) ELSE Digits(n)

TwoDigits(n) == << Digit(n \div 10), Digit(n % 10) >>

UnknownTime == << "u", "n", "k", "n", "o", "w", "n", SP, "t", "i", "m", "e" >>

\* f"{...}s ago", f"{...}m ago", f"{...}h ago"
Ago(n, unit) == Str(n) \o << unit, SP, "a", "g", "o" >>

\* dt.isoformat(" ", "seconds") of the naive local time dt (seconds since the
\* epoch plus the UTC offset); the calendar date is written as the number of
\* the day.
IsoFormat(dt) ==
    Str(dt \div Day) \o << SP >> \o TwoDigits((dt % Day) \div Hour) \o << ":" >>
        \o TwoDigits((dt % Hour) \div Minute) \o << ":" >> \o TwoDigits(dt % Minute)

\* int(diff.total_seconds()): truncation toward zero of
\* (now + fraction + offset at now) - (t + offset at t).
DiffSeconds(t, now, frac, shift) ==
    LET whole == now - t + shift IN
    IF whole < 0 /\ frac THEN whole + 1 ELSE whole

short_time_ago(t, now, frac, shift) ==
    IF t = << >> \/ t = << 0 >>
    THEN UnknownTime
    ELSE LET s == DiffSeconds(t[1], now, frac, shift) IN
         IF s < Minute THEN Ago(s, "s")
         ELSE IF s < Hour THEN Ago(s \div Minute, "m")
         ELSE IF s < Day THEN Ago(s \div Hour, "h")
         ELSE IsoFormat(t[1] + shift)

\* Inputs: the clock, and timestamps of ages around the multiples of the
\* units, of half a minute, and in the future by a second.
NowBase == (MaxAgeUnits + 2) * Day
Ages ==
    {m * u + e : m \in 0..MaxAgeUnits, u \in {1, Minute, Hour, Day}, e \in {0 - 1, 0, 1}}
        \cup {Minute \div 2}
Timestamps == {<< >>, << 0 >>} \cup {<< NowBase - d >> : d \in Ages}
\* A change of the local UTC offset (daylight saving time) between ts and now.
UtcShifts == {0 - Hour, 0, Hour}

InitTime ==
    /\ pc = "sta_call" /\ exitReason = ""
    /\ fileExists = FALSE /\ fileContent = << >>
    /\ seen_ids = {} /\ seen_at_start = {}
    /\ resolved = Unresolved
    /\ session = "none" /\ connected = FALSE
    /\ symIdx = 1 /\ req_id = 1000 /\ news_ticks = << >> /\ saveRest = << >>
    /\ upstream = [s \in Symbols |-> << >>] /\ run = 1
    /\ cycle = 0
    /\ pubEarlier = {} /\ pubProc = NoCount
    /\ committed = {}
    /\ status = NoStatus /\ fetchedKeys = NoKeys
    /\ raisedKeys = {} /\ cycPubOk = {} /\ cycPubFail = {}
    /\ lastLoad = "none" /\ lastWait = "none"
    /\ rtS = {} /\ rtLoaded = {} /\ rtFile2 = << >>
    /\ ts \in Timestamps
    /\ nowEpoch = NowBase
    /\ nowFrac \in BOOLEAN
    /\ utcShift \in UtcShifts
    /\ rendered = << >>
    /\ raisedEarlier = {}
    /\ histOn = FALSE
    /\ lastSaved = {}
    /\ lastItem = NoItem
    /\ symPubCount = 0
    /\ cycFetched = FALSE
    /\ prevFetched = FALSE

\* The call returns.
ShortTimeAgo ==
    /\ pc = "sta_call"
    /\ rendered' = short_time_ago(ts, nowEpoch, nowFrac, utcShift)
    /\ pc' = "sta_done"
    /\ UNCHANGED << exitReason, fileVars, seen_ids, procVars, fetchVars, saveRest,
                    srcVars, cycle, pubHist, seen_at_start, committed,
                    cycHist, loadHist, rtVars, ts, nowEpoch, nowFrac, utcShift,
                    raisedEarlier, histOn, lastSaved, lastItem, symPubCount,
                    cycFetched, prevFetched >>

NextTime == ShortTimeAgo

SpecTime == InitTime /\ [][NextTime]_vars

(***************************************************************************)
(* Properties.                                                             *)
(***************************************************************************)
PublishedBefore(k) == IF k \in pubEarlier THEN 1 ELSE 0

\* C1 (as stated): over all processes, restarts included, each key is
\* published to the console at most once.
C1_AtMostOnceAcrossRestarts ==
    \A k \in Keys : pubProc[k] + PublishedBefore(k) <= 1

\* C1 (amended): a process publishes each key at most once, and never a key
\* of the set load_seen_ids returned when it started; only a key that is not in
\* the file as loaded (published after the last completed save) is published
\* again after a restart.
C1_AtMostOncePerProcessAndLoaded ==
    \A k \in Keys :
        /\ pubProc[k] <= 1
        /\ k \in seen_at_start => pubProc[k] = 0

\* C1 witness: after a restart, the source has returned a loaded key again and
\* the symbol's items have all been iterated over.
C1_Witness ==
    /\ pubEarlier # {}
    /\ \E s \in Symbols :
         /\ status[s] = "complete"
         /\ fetchedKeys[s] \cap seen_at_start # {}

\* C2: no step publishes an item whose key is in seen_ids; the item a step
\* publishes is the first of the items not yet iterated over, and no key is
\* published twice by one process.
C2_SeenNeverPublished ==
    [][\A k \in Keys :
          /\ k \in seen_ids => pubProc'[k] <= pubProc[k]
          /\ pubProc'[k] > pubProc[k] =>
                /\ news_ticks # << >>
                /\ k = ArticleKey(Head(news_ticks))
                /\ pubProc'[k] = 1]_vars

\* C2 witness: both symbols returned the same key, under headlines that differ
\* or not; the second symbol's items are iterated over and the key was
\* published once.
C2_Witness ==
    /\ pc = "items" /\ symIdx = 2 /\ news_ticks = << >>
    /\ status[1] = "complete"
    /\ \E k \in fetchedKeys[1] \cap fetchedKeys[2] :
         k \notin seen_at_start /\ pubProc[k] = 1

\* C3: when a call of fetch_and_publish_news has returned (the first or the
\* second, same seen_ids, same source, no failure), every key of the source
\* that was not seen initially has been published exactly once, no other key
\* has been published, and seen_ids is the initial set plus the source's keys.
C3_TwoRunsPublishOnce ==
    pc = "returned" =>
        /\ seen_ids = seen_at_start \cup UpstreamKeys
        /\ \A k \in Keys :
             pubProc[k] = IF k \in UpstreamKeys \ seen_at_start THEN 1 ELSE 0

\* C3 witness: the second call has returned, for the scenario of the first
\* symbol returning one unseen item and the second symbol none.
C3_Witness ==
    /\ pc = "returned" /\ run = 2
    /\ seen_at_start = {}
    /\ Len(upstream[1]) = 1 /\ upstream[2] = << >>
    /\ seen_ids = KeysOf(upstream[1])

\* C4 (as stated): after the save that ends a cycle, the file holds every key
\* whose publish succeeded in the cycle and no key whose publish failed after
\* another key's publish had succeeded.
C4_FailedKeyAbsent ==
    pc = "sleep" =>
        /\ cycPubOk \subseteq WrittenKeys(fileContent)
        /\ cycPubFail \cap WrittenKeys(fileContent) = {}

\* C4 (amended): ... and no such key, unless a later item with the same key
\* (returned for a later symbol of the cycle) was published successfully.
C4_FailedKeyAbsentUnlessRepublished ==
    pc = "sleep" =>
        /\ cycPubOk \subseteq WrittenKeys(fileContent)
        /\ (cycPubFail \ cycPubOk) \cap WrittenKeys(fileContent) = {}

\* C4 witness: the cycle's save is complete, X was published and Y failed
\* after it and was not published later.
C4_Witness ==
    /\ pc = "sleep"
    /\ cycPubOk # {}
    /\ cycPubFail \ cycPubOk # {}

\* C5: when fetch_and_publish_news returns, every symbol has been handled,
\* whatever failed before it, and every symbol whose own handling did not fail
\* was fetched and has all its items seen, each published by this process
\* unless it was seen from the start.
C5_LaterSymbolsHandled ==
    pc = "returned" =>
        \A s \in Symbols :
            /\ status[s] # "none"
            /\ status[s] = "complete" =>
                 /\ fetchedKeys[s] \subseteq seen_ids
                 /\ \A k \in fetchedKeys[s] : pubProc[k] = 1 \/ k \in seen_at_start

\* C5 witness: the first symbol failed, the second one was fetched and an item
\* of it published.
C5_Witness ==
    /\ pc = "returned"
    /\ status[1] = "failed" /\ status[2] = "complete"
    /\ fetchedKeys[2] \cap cycPubOk # {}

\* C6: when fetch_and_publish_news returns, every item a fetch of the cycle
\* returned is seen (published now or earlier), except the items whose own
\* handling raised.
C6_ItemIsolation ==
    pc = "returned" =>
        \A s \in Symbols : fetchedKeys[s] \subseteq seen_ids \cup raisedKeys

\* C7: load_seen_ids never ends the process: an absent file gives the empty
\* set, and so does a read that raises, and the process goes on to connect.
C7_LoadNeverFails ==
    /\ (lastLoad = "absent" /\ pc = "connect") => seen_ids = {}
    /\ lastLoad = "ioerror" => ~(pc = "exited" /\ exitReason = "load_error")

\* C8: load_seen_ids after save_seen_ids(S) returns S, and saving what was
\* loaded writes a file that loads to the same set.
C8_RoundTrip ==
    /\ pc \in {"rt_resave", "rt_done"} => rtLoaded = rtS
    /\ pc = "rt_done" => load_seen_ids(TRUE, rtFile2) = rtLoaded

\* C9: when a process starts, load_seen_ids returns every key it returned
\* right after the last completed save.
C9_NoCommittedLoss ==
    pc = "start" => committed \subseteq load_seen_ids(fileExists, fileContent)

\* C10: the loop is left only by an interrupt (or the process being killed);
\* the steps of save_seen_ids stay in the loop, an exception of it leading to
\* the short delay; and the short delay is followed by the next iteration.
C10_LoopSurvivesExceptions ==
    [][/\ (pc \in LoopPcs /\ pc' \notin LoopPcs) =>
             \/ pc' = "cleanup" /\ exitReason' = "interrupt"
             \/ pc' = "exited" /\ exitReason' = "crash"
       /\ (pc \in {"returned", "writing"} /\ pc' \in LoopPcs) =>
             pc' \in {"writing", "sleep", "err_delay"}
       /\ (pc = "err_delay" /\ pc' \in LoopPcs /\ pc' # pc) =>
             pc' = "qualify" /\ cycle' = cycle + 1]_vars

\* C10 witness: an iteration that started after the short delay.
C10_Witness ==
    /\ pc = "qualify"
    /\ lastWait = "delay"
    /\ connected

\* C11: an interrupt in any state from connecting to the error delay leads to
\* the finally block with the session and the connection as they are; the
\* process ends from there only with the provider disconnected and an open
\* notifier session closed or its close attempted and failed (which does not
\* keep the provider connected).
C11_InterruptCleansUp ==
    [][/\ (pc \in LoopPcs \cup {"connect"} /\ exitReason' = "interrupt") =>
             /\ pc' = "cleanup"
             /\ session' = session /\ connected' = connected
       /\ (pc = "cleanup" /\ pc' = "exited" /\ exitReason' = "interrupt") =>
             /\ ~connected'
             /\ session = "open" => session' \in {"closed", "close_failed"}
             /\ session # "open" => session' = session]_vars

\* C11 witness: the process ended on an interrupt, the close of its notifier
\* session failed, and the provider is disconnected.
C11_Witness ==
    /\ pc = "exited" /\ exitReason = "interrupt"
    /\ session = "close_failed"
    /\ ~connected

\* d of C12: now - ts in whole seconds (truncated the way int() truncates).
Elapsed == DiffSeconds(ts[1], nowEpoch, nowFrac, 0)

\* "YYYY-MM-DD HH:MM:SS" as IsoFormat writes it: a date, a space, and three
\* two-digit fields separated by colons.
IsDateTime(str) ==
    /\ Len(str) >= 10
    /\ str[Len(str) - 2] = ":" /\ str[Len(str) - 5] = ":" /\ str[Len(str) - 8] = SP
    /\ str[Len(str)] \in SeqRange(DigitChars)

\* C12: short_time_ago(ts) returns "unknown time" for None and 0, and with
\* d = now - ts in whole seconds "<d>s ago" when d < 60, "<d div 60>m ago" when
\* 60 <= d < 3600, "<d div 3600>h ago" when 3600 <= d < 86400, and an absolute
\* date-time string otherwise.
C12_ShortTimeAgo ==
    pc = "sta_done" =>
        IF ts = << >> \/ ts = << 0 >>
        THEN rendered = UnknownTime
        ELSE CASE Elapsed < Minute -> rendered = Ago(Elapsed, "s")
               [] Elapsed >= Minute /\ Elapsed < Hour ->
                      rendered = Ago(Elapsed \div Minute, "m")
               [] Elapsed >= Hour /\ Elapsed < Day ->
                      rendered = Ago(Elapsed \div Hour, "h")
               [] OTHER -> IsDateTime(rendered)

\* C12 where the local UTC offset is the same at ts and at now: the claim's
\* table holds.
C12_ShortTimeAgoSameOffset ==
    utcShift = 0 => C12_ShortTimeAgo

\* C13: every key of seen_ids that load_seen_ids did not return has been
\* published by this process; a key gets into seen_ids only in a step that
\* publishes it; a step in which the publish of an item raises publishes
\* nothing and leaves its key out of seen_ids; and an unseen item the loop
\* goes past (in this or a later cycle) is published and its key marked.
C13_SeenOnlyAfterPublish ==
    /\ [](\A k \in seen_ids \ seen_at_start : pubProc[k] >= 1)
    /\ [][\A k \in Keys :
            /\ (k \notin seen_ids /\ k \in seen_ids' /\ k \notin seen_at_start') =>
                    pubProc'[k] = pubProc[k] + 1
            /\ (k \notin raisedKeys /\ k \in raisedKeys') =>
                    k \notin seen_ids' /\ pubProc'[k] = pubProc[k]
            /\ ( /\ pc = "items" /\ news_ticks # << >>
                 /\ k = ArticleKey(Head(news_ticks)) /\ k \notin seen_ids
                 /\ pc' = "items" /\ news_ticks' = Tail(news_ticks) ) =>
                    pubProc'[k] = pubProc[k] + 1 /\ k \in seen_ids']_vars

\* C13 witness: a key whose publish raised in an earlier cycle has been
\* returned again in this cycle and published, once, and is in seen_ids.
C13_Witness ==
    /\ pc = "items"
    /\ \E k \in raisedEarlier \cap cycPubOk :
         /\ k \notin raisedKeys
         /\ k \in seen_ids /\ pubProc[k] = 1

\* C14: while a process runs no step removes a key from seen_ids, and a
\* save that completes has written every key the last completed save of the
\* process wrote.
C14_SeenOnlyGrows ==
    [][/\ (pc \in LoopPcs \cup {"connect"} /\ pc' \in LoopPcs \cup {"connect"}) =>
             seen_ids \subseteq seen_ids'
       /\ (pc = "writing" /\ pc' = "sleep") =>
             lastSaved \subseteq WrittenKeys(fileContent')]_vars

\* C14 witness: the second save of a process has written its last line, after
\* a cycle that published a key, and holds more keys than the first one wrote;
\* the first one wrote a key.
C14_Witness ==
    /\ pc = "writing" /\ saveRest = << >>
    /\ lastSaved # {}
    /\ cycPubOk # {}
    /\ lastSaved \subseteq WrittenKeys(fileContent)
    /\ WrittenKeys(fileContent) # lastSaved

\* C15: a step that handles an unseen item and in which the fetch of the
\* article body fails publishes the item, adds its key to seen_ids, and stays
\* in the loop over the symbol's items with the following items to handle.
C15_BodyFailureKeepsItem ==
    [][(lastItem' # lastItem /\ lastItem'.body = "failed") =>
          /\ pc = "items" /\ news_ticks # << >>
          /\ lastItem'.key = ArticleKey(Head(news_ticks))
          /\ pubProc'[lastItem'.key] = pubProc[lastItem'.key] + 1
          /\ lastItem'.key \in seen_ids' \ seen_ids
          /\ pc' = "items" /\ news_ticks' = Tail(news_ticks)]_vars

\* C15 witness: the body fetch failed for the item just handled; the item is
\* published and seen, and the symbol's next item, unseen, is up next.
C15_Witness ==
    /\ pc = "items"
    /\ lastItem.body = "failed"
    /\ lastItem.key \in seen_ids /\ pubProc[lastItem.key] = 1
    /\ news_ticks # << >>
    /\ ArticleKey(Head(news_ticks)) \notin seen_ids

\* C16: a step in which the Telegram post gets a non-200 answer or raises has
\* printed the item, adds its key to seen_ids and stays in the loop over the
\* items (so the remaining items and symbols follow); and without a session
\* nothing is posted.
C16_PostFailureSwallowed ==
    [][lastItem' # lastItem =>
          /\ lastItem'.post \in {"non200", "raised"} =>
                /\ pc = "items" /\ news_ticks # << >>
                /\ lastItem'.key = ArticleKey(Head(news_ticks))
                /\ pubProc'[lastItem'.key] = pubProc[lastItem'.key] + 1
                /\ lastItem'.key \in seen_ids' \ seen_ids
                /\ pc' = "items" /\ news_ticks' = Tail(news_ticks)
                /\ session' = session /\ connected' = connected
          /\ session # "open" => lastItem'.post = "none"]_vars

\* C16 witness: the post failed for the first symbol's item just handled; the
\* item is published and seen, and another unseen item is up next.
C16_Witness ==
    /\ pc = "items" /\ symIdx = 1
    /\ lastItem.post \in {"non200", "raised"}
    /\ lastItem.key \in seen_ids /\ pubProc[lastItem.key] = 1
    /\ news_ticks # << >>
    /\ ArticleKey(Head(news_ticks)) \notin seen_ids

\* C17: a loop iteration asks for the resolution only of symbols whose
\* contract has no conId yet (a resolved symbol is never resolved again), and
\* no fetch is issued in a cycle for a symbol the cycle found unresolved.
C17_ResolveOnlyUnresolved ==
    [][/\ (pc = "qualify" /\ pc' \in {"qualify", "sym"} /\ << pc', symIdx' >> # << pc, symIdx >>) =>
             ~resolved[symIdx]
       /\ (pc = "sym" /\ ~resolved[symIdx]) => pc' # "req"]_vars

\* C18: in a cycle, the items published (and the keys added to seen_ids) for
\* a symbol are at most HIST_NEWS_LIMIT, whatever list the source returns.
C18_AtMostLimitPerSymbol ==
    symPubCount <= HIST_NEWS_LIMIT

\* The key set of the durable file: what load_seen_ids returns for it.
DurableKeys == load_seen_ids(fileExists, fileContent)

RunPcs == LoopPcs \cup {"connect"}

\* C19: the file changes only in save_seen_ids at the end of a cycle; in the
\* poll-interval sleep the file's key set is seen_ids; at every other moment of
\* the run (from the load on) it is a subset of seen_ids.
C19_DurableMatchesMemory ==
    /\ [][fileVars' # fileVars => pc \in {"returned", "writing"}]_vars
    /\ [](pc = "sleep" => DurableKeys = seen_ids)
    /\ [](pc \in RunPcs => DurableKeys \subseteq seen_ids)

\* C19 for the runs in which no key of seen_ids starts or ends with white
\* space: the three parts hold.
C19_DurableMatchesStripped ==
    /\ [][fileVars' # fileVars => pc \in {"returned", "writing"}]_vars
    /\ []((\A k \in seen_ids : Strip(k) = k) =>
             /\ pc = "sleep" => DurableKeys = seen_ids
             /\ pc \in RunPcs => DurableKeys \subseteq seen_ids)

\* C20: two consecutive cycles that both got a fetch answered are never
\* separated by the 10-second error delay alone.
C20_FullSleepBetweenFetches ==
    ~(cycFetched /\ prevFetched /\ lastWait = "delay")

====
